---- MODULE Spec2Model ----
(***************************************************************************)
(* A model of the credit-default scoring service: the risk categorizer     *)
(* (src/predict.py), the single-sample scorer predict_from_dict            *)
(* (src/predict.py), the batch CSV runner (src/batch_predict.py) and the   *)
(* HTTP service with its bundle loader (src/api.py).                       *)
(*                                                                         *)
(* Probabilities are exact rationals with denominator PScale: the integer  *)
(* k stands for the probability k / PScale.  PScale is the divisor of the  *)
(* HTTP fallback (credit_amount / 20000.0), so that the fallback value is  *)
(* itself a whole number of units.  The next representable probability     *)
(* after p is p + 1.                                                       *)
(***************************************************************************)
EXTENDS Integers, Sequences, FiniteSets, TLC

VARIABLES
    \* ---- the risk categorizer applied on its own (SpecCategorize) ----
    thresholds,        \* the thresholds mapping handed to categorize
    prob_default,      \* the probability last categorized
    risk,              \* what predict.categorize returned for it
    risk_cli,          \* what the categorize nested in batch_predict.main returned
    \* ---- the file system: the models directory ----
    files,             \* path -> bundle stored there, or NoFile
    \* ---- src/api.py module globals ----
    _BUNDLE, _PIPE, _FEATURE_COLUMNS, _THRESHOLDS, _PROBA_IDX,
    load_pc,           \* position of on_startup / _load_bundle
    load_path,         \* _load_bundle's local path, once resolved
    load_error,        \* the exception that ended the startup load, if any
    trained,           \* what _train_model_if_needed wrote: "no", "trained", "fallback"
    \* ---- the call being answered ----
    call               \* the last operation, its input and its outcome; Idle when none

vars == <<thresholds, prob_default, risk, risk_cli, files,
          _BUNDLE, _PIPE, _FEATURE_COLUMNS, _THRESHOLDS, _PROBA_IDX, load_pc, load_path,
          load_error, trained, call>>

catVars == <<thresholds, prob_default, risk, risk_cli>>
globals == <<_BUNDLE, _PIPE, _FEATURE_COLUMNS, _THRESHOLDS, _PROBA_IDX>>
loadVars == <<load_pc, load_path, load_error, trained>>
svcVars == <<files, globals, loadVars, call>>

(***************************************************************************)
(* Numbers                                                                 *)
(***************************************************************************)
\* One probability unit is 1 / PScale (the divisor of the HTTP fallback).
PScale == 20000

\* n percent, in probability units.
Pct(n) == (n * PScale) \div 100

\* The thresholds every path substitutes when the bundle has none.
DefaultThresholds == [low |-> Pct(20), medium |-> Pct(50)]

\* Number of steps of the grid the categorizer's thresholds are drawn from.
GridLevels == 10

\* Longest batch (HTTP list, CSV rows) explored.
MaxBatch == 2

(***************************************************************************)
(* Risk categorizer                                                        *)
(***************************************************************************)
KeyError == "KeyError"
Tiers == {"low", "medium", "high"}

\* A mutant of categorize: the second band is tested with < instead of <=.
categorize_strict(p, t) ==
    IF "low" \notin DOMAIN t THEN KeyError
    ELSE IF p <= t["low"] THEN "low"
    ELSE IF "medium" \notin DOMAIN t THEN KeyError
    ELSE IF p < t["medium"] THEN "medium"
    ELSE "high"

\* A mutant of categorize: the bands are tested in the wrong order.
categorize_swapped(p, t) ==
    IF "medium" \notin DOMAIN t THEN KeyError
    ELSE IF p <= t["medium"] THEN "medium"
    ELSE IF "low" \notin DOMAIN t THEN KeyError
    ELSE IF p <= t["low"] THEN "low"
    ELSE "high"

\* A mutant of categorize: the labels of the outer bands are exchanged.
categorize_mislabelled(p, t) ==
    IF "low" \notin DOMAIN t THEN KeyError
    ELSE IF p <= t["low"] THEN "high"
    ELSE IF "medium" \notin DOMAIN t THEN KeyError
    ELSE IF p <= t["medium"] THEN "medium"
    ELSE "low"

\* predict.categorize.  A dict lookup of an absent key raises KeyError; the
\* key "medium" is looked up only when the first test fails.
categorize(p, t) ==
    IF "low" \notin DOMAIN t THEN KeyError
    ELSE IF p <= t["low"] THEN "low"
    ELSE IF "medium" \notin DOMAIN t THEN KeyError
    ELSE IF p <= t["medium"] THEN "medium"
    ELSE "high"

\* The categorize nested in batch_predict.main, closed over the bundle's
\* thresholds.
batch_categorize(p, t) ==
    IF "low" \notin DOMAIN t THEN KeyError
    ELSE IF p <= t["low"] THEN "low"
    ELSE IF "medium" \notin DOMAIN t THEN KeyError
    ELSE IF p <= t["medium"] THEN "medium"
    ELSE "high"

\* The order low < medium < high of the tiers.
Rank(tier) == CASE tier = "low" -> 1 [] tier = "medium" -> 2 [] tier = "high" -> 3 [] OTHER -> 0

(***************************************************************************)
(* The categorizer on its own: thresholds from a grid over [0, 1] (ordered *)
(* or not, nothing in the code orders them), probabilities from every      *)
(* percent of [0, 1] and from the two values next to each threshold.       *)
(***************************************************************************)
GridStep == PScale \div GridLevels
ThresholdValues == {k * GridStep : k \in 0..GridLevels}
ThresholdDicts == {[low |-> l, medium |-> m] : l \in ThresholdValues, m \in ThresholdValues}
NotApplied == "not applied"

ProbInputs(t) ==
    {Pct(k) : k \in 0..100}
        \cup {t["low"], t["low"] + 1, t["medium"], t["medium"] + 1}

(***************************************************************************)
(* Values, records and feature alignment                                   *)
(***************************************************************************)
\* A cell of a record or of a feature vector: a number, a string category,
\* or the missing marker (pandas NaN).
Num(n) == [kind |-> "num", num |-> n, str |-> ""]
Str(s) == [kind |-> "str", num |-> 0, str |-> s]
NaN == [kind |-> "nan", num |-> 0, str |-> ""]

\* Python's None, for _BUNDLE, _PIPE and an absent model_path argument.
None == [none |-> TRUE]

\* CreditRequest, cut down to one string field and two integer fields of
\* its twenty; pydantic admits a request only with every field present.
RequestFields == {"checking_status", "duration", "credit_amount"}
CheckingStatuses == {"<0", "no checking"}
Durations == {12}
CreditAmounts == {0 - 500, 4000, 25000}
CreditRequests ==
    {[checking_status |-> Str(cs), duration |-> Num(d), credit_amount |-> Num(ca)] :
        cs \in CheckingStatuses, d \in Durations, ca \in CreditAmounts}

\* Records given to the command-line paths: a sample dict, or the rows of a
\* CSV.  The rows of one CSV share its header; a header may lack feature
\* columns, may hold a column ("note") that no bundle knows, and may be
\* that of an earlier output, which has a column "risk".
CsvHeaders == {{"checking_status", "duration", "credit_amount"},
               {"duration", "credit_amount", "note"},
               {"credit_amount", "risk"},
               {"credit_amount"}}
ColumnValues(c) ==
    CASE c = "checking_status" -> {Str(cs) : cs \in CheckingStatuses}
      [] c = "duration" -> {Num(d) : d \in Durations}
      [] c = "credit_amount" -> {Num(2500), Num(9000)}
      [] OTHER -> {Str("x")}
RowsOf(h) == {r \in [h -> UNION {ColumnValues(c) : c \in h}] : \A c \in h : r[c] \in ColumnValues(c)}
Records == UNION {RowsOf(h) : h \in CsvHeaders}

\* Sequences of at most n elements of S.
SeqsUpTo(S, n) == UNION {[1..k -> S] : k \in 0..n}

CsvInputs == UNION {SeqsUpTo(RowsOf(h), MaxBatch) : h \in CsvHeaders}

\* The requests that POST /predict_batch lists are made of.
BatchRequests ==
    {r \in CreditRequests : (r.checking_status = Str("no checking")) = (r.credit_amount = Num(4000))}
RequestLists == SeqsUpTo(BatchRequests, MaxBatch)

\* A mutant of Reindex: an absent column is filled with 0 instead of NaN.
Reindex_zero_fill(rec, cols) ==
    [k \in 1..Len(cols) |-> IF cols[k] \in DOMAIN rec THEN rec[cols[k]] ELSE Num(0)]

\* DataFrame.reindex(columns=cols) of one row: the columns of cols in their
\* order, a column the record lacks filled with NaN, the others dropped.
Reindex(rec, cols) ==
    [k \in 1..Len(cols) |-> IF cols[k] \in DOMAIN rec THEN rec[cols[k]] ELSE NaN]

ReindexAll(recs, cols) == [i \in 1..Len(recs) |-> Reindex(recs[i], cols)]

\* api.predict: every object (string) column is replaced by its category
\* codes; one row has one category per column, whose code is 0.
EncodeCategories(row) ==
    [k \in DOMAIN row |-> IF row[k].kind = "str" THEN Num(0) ELSE row[k]]

(***************************************************************************)
(* The classifier: an opaque fitted pipeline.  It is a fixed function of   *)
(* the feature vector that depends on every cell and on its position.      *)
(***************************************************************************)
StrCode(s) == CASE s = "<0" -> 6100 [] s = "no checking" -> 900 [] OTHER -> 1700
\* A missing value counts as the value the model's imputer puts in its place.
CellValue(c) ==
    CASE c.kind = "num" -> c.num
      [] c.kind = "str" -> StrCode(c.str)
      [] OTHER -> 40

RECURSIVE WeightedSum(_, _)
WeightedSum(row, k) ==
    IF k = 0 THEN 0 ELSE (2 * k + 1) * CellValue(row[k]) + WeightedSum(row, k - 1)

\* The probability of default the fitted model assigns to a feature vector.
Score(row) == (WeightedSum(row, Len(row)) + PScale + 1) % (PScale + 1)

\* One row of predict_proba: a probability per class, in the classifier's
\* own class order.
ProbaRow(pipe, row) ==
    [k \in 1..Len(pipe.order) |->
        IF pipe.order[k] = "good" THEN PScale - Score(row) ELSE Score(row)]

predict_proba(pipe, X) == [i \in 1..Len(X) |-> ProbaRow(pipe, X[i])]

\* The fitted pipeline raises on a row without columns, on a missing value it
\* has no imputer for and on a string it has no encoder for.
ClassifierRaises(pipe, X) ==
    \E i \in 1..Len(X) :
        \/ Len(X[i]) = 0
        \/ \E k \in 1..Len(X[i]) :
              \/ X[i][k].kind = "nan" /\ ~pipe.imputes
              \/ X[i][k].kind = "str" /\ ~pipe.encodes

\* list(pipe.classes_).index(label), 0-based; -1 stands for ValueError.
IndexOf(seq, label) ==
    IF \E k \in 1..Len(seq) : seq[k] = label
    THEN (CHOOSE k \in 1..Len(seq) : seq[k] = label /\ \A j \in 1..(k - 1) : seq[j] # label) - 1
    ELSE 0 - 1

(***************************************************************************)
(* Bundles and the models directory                                        *)
(***************************************************************************)
\* A fitted pipeline: its class order, whether it exposes classes_, whether
\* it imputes missing values and whether it encodes string categories.
\* train.build_pipeline has imputers and a one-hot encoder, and a fitted
\* classifier lists its labels sorted; the demo pipeline of
\* _create_fallback_model is a bare random forest with classes_ set by hand.
TrainedPipe == [order |-> <<"bad", "good">>, exposes_classes |-> TRUE, imputes |-> TRUE, encodes |-> TRUE]
FallbackPipe == [order |-> <<"good", "bad">>, exposes_classes |-> TRUE, imputes |-> FALSE, encodes |-> FALSE]
NoBadPipe == [order |-> <<"default", "good">>, exposes_classes |-> TRUE, imputes |-> TRUE, encodes |-> TRUE]
NoClassesPipe == [order |-> <<"bad", "good">>, exposes_classes |-> FALSE, imputes |-> TRUE, encodes |-> TRUE]

\* The feature columns of the training data (the request's fields).
FullColumns == <<"checking_status", "duration", "credit_amount">>
\* Feature columns in another order, with a column no request or CSV has.
WideColumns == <<"credit_amount", "income", "checking_status">>

\* The bundle train.main saves, and the one _create_fallback_model saves.
TrainedBundle == [pipeline |-> TrainedPipe, feature_columns |-> FullColumns, thresholds |-> DefaultThresholds]
FallbackBundle == [pipeline |-> FallbackPipe, feature_columns |-> FullColumns, thresholds |-> DefaultThresholds]

\* Other bundles a models directory may hold.
WideBundle == [pipeline |-> TrainedPipe, feature_columns |-> WideColumns,
               thresholds |-> [low |-> Pct(10), medium |-> Pct(30)]]
StrictWideBundle == [pipeline |-> FallbackPipe, feature_columns |-> WideColumns, thresholds |-> DefaultThresholds]
NoBadBundle == [pipeline |-> NoBadPipe, feature_columns |-> FullColumns, thresholds |-> DefaultThresholds]
NoClassesBundle == [pipeline |-> NoClassesPipe, feature_columns |-> FullColumns, thresholds |-> DefaultThresholds]
NoPipelineBundle == [feature_columns |-> FullColumns, thresholds |-> DefaultThresholds]
NoColumnsBundle == [pipeline |-> TrainedPipe, thresholds |-> DefaultThresholds]
NoThresholdsBundle == [pipeline |-> TrainedPipe, feature_columns |-> FullColumns]
PartialThresholdsBundle == [pipeline |-> TrainedPipe, feature_columns |-> FullColumns,
                            thresholds |-> [k \in {"low"} |-> Pct(20)]]

Bundles == {TrainedBundle, FallbackBundle, WideBundle, StrictWideBundle, NoBadBundle, NoClassesBundle,
            NoPipelineBundle, NoColumnsBundle, NoThresholdsBundle, PartialThresholdsBundle}

\* The models directory: credit_model_best.joblib, credit_model.joblib, and
\* one more path that a command line may name.
NoFile == [nofile |-> TRUE]
Paths == {"best", "regular", "custom"}
NoPath == "<none>"
exists(fs, path) == fs[path] # NoFile

(***************************************************************************)
(* Outcomes of a call                                                      *)
(***************************************************************************)
\* results: the scoring results returned; via: how each was produced;
\* invoked: the feature matrices handed to predict_proba, one per
\* invocation; loaded: the path whose bundle was read.
Ok(results, via, invoked, loaded) ==
    [kind |-> "ok", error |-> "", results |-> results, via |-> via, invoked |-> invoked, loaded |-> loaded]
Err(error, invoked, loaded) ==
    [kind |-> "error", error |-> error, results |-> <<>>, via |-> <<>>, invoked |-> invoked, loaded |-> loaded]

Result(p, r) == [prob_default |-> p, risk |-> r]

(***************************************************************************)
(* src/predict.py: predict_from_dict                                       *)
(***************************************************************************)
\* The path predict_from_dict reads: the given one, else the best bundle if
\* that file exists, else the default bundle.
ResolvePath(fs, model_path) ==
    IF model_path = NoPath
    THEN IF exists(fs, "best") THEN "best" ELSE "regular"
    ELSE model_path

\* bundle.get("thresholds", {"low": 0.20, "medium": 0.50})
GetThresholds(bundle) ==
    IF "thresholds" \in DOMAIN bundle THEN bundle.thresholds ELSE DefaultThresholds

\* list(pipe.classes_).index("bad"), 0-based; -1 when the label is absent.
BadIndex(pipe) == IndexOf(pipe.order, "bad")

\* The body of predict_from_dict after the bundle is read: lines 21-28.
ScoreSample(bundle, sample, path) ==
    IF "pipeline" \notin DOMAIN bundle THEN Err("KeyError", <<>>, path)
    ELSE IF "feature_columns" \notin DOMAIN bundle THEN Err("KeyError", <<>>, path)
    ELSE
      LET pipe == bundle.pipeline
          th == GetThresholds(bundle)
          X == <<Reindex(sample, bundle.feature_columns)>>
      IN  \* pipe.predict_proba(X) is evaluated before the subscript that
          \* looks "bad" up in pipe.classes_
          IF ClassifierRaises(pipe, X) THEN Err("ValueError", <<X>>, path)
          ELSE IF ~pipe.exposes_classes THEN Err("AttributeError", <<X>>, path)
          ELSE IF BadIndex(pipe) < 0 THEN Err("ValueError", <<X>>, path)
          ELSE
            LET proba_bad == predict_proba(pipe, X)[1][BadIndex(pipe) + 1]
                tier == categorize(proba_bad, th)
            IN  IF tier = KeyError THEN Err("KeyError", <<X>>, path)
                ELSE Ok(<<Result(proba_bad, tier)>>, <<"model">>, <<X>>, path)

predict_from_dict(fs, sample, model_path) ==
    LET path == ResolvePath(fs, model_path)
    IN  IF ~exists(fs, path) THEN Err("FileNotFoundError", <<>>, NoPath)
        ELSE ScoreSample(fs[path], sample, path)

(***************************************************************************)
(* src/batch_predict.py: main                                              *)
(***************************************************************************)
\* model_path: the third argument, else the default bundle (the best bundle
\* is not looked at).
BatchPath(model_path) == IF model_path = NoPath THEN "regular" ELSE model_path

\* A mutant of BatchRows: the rows come out in reverse order.
BatchRows_reversed(probs, th) ==
    [i \in 1..Len(probs) |->
        Result(probs[Len(probs) + 1 - i], batch_categorize(probs[Len(probs) + 1 - i], th))]

\* The two appended columns, row by row: lines 40-41.
BatchRows(probs, th) ==
    [i \in 1..Len(probs) |-> Result(probs[i], batch_categorize(probs[i], th))]

\* A mutant of OutputCsv: only the two computed columns are written.
OutputCsv_scores_only(rows, results) ==
    [i \in 1..Len(rows) |->
        [c \in {"prob_default", "risk"} |->
            IF c = "prob_default" THEN Num(results[i].prob_default) ELSE Str(results[i].risk)]]

\* The frame that line 42 writes: the frame read at line 28 after the two
\* column assignments of lines 40-41.  An assignment replaces the column of
\* that name when the frame has one and adds the column otherwise.
OutputCsv(rows, results) ==
    [i \in 1..Len(rows) |->
        [c \in DOMAIN rows[i] \cup {"prob_default", "risk"} |->
            IF c = "prob_default" THEN Num(results[i].prob_default)
            ELSE IF c = "risk" THEN Str(results[i].risk)
            ELSE rows[i][c]]]

\* The body of main after the bundle is read: lines 24-42.  empty_raises is
\* the classifier's answer to a frame without rows.
ScoreFrame(bundle, rows, path, empty_raises) ==
    IF "pipeline" \notin DOMAIN bundle THEN Err("KeyError", <<>>, path)
    ELSE IF "feature_columns" \notin DOMAIN bundle THEN Err("KeyError", <<>>, path)
    ELSE
      LET pipe == bundle.pipeline
          th == GetThresholds(bundle)
          X == ReindexAll(rows, bundle.feature_columns)
      IN  IF ~pipe.exposes_classes THEN Err("AttributeError", <<>>, path)
          ELSE IF BadIndex(pipe) < 0 THEN Err("ValueError", <<>>, path)
          ELSE IF ClassifierRaises(pipe, X) \/ (Len(rows) = 0 /\ empty_raises)
               THEN Err("ValueError", <<X>>, path)
          ELSE
            LET probs == [i \in 1..Len(X) |-> predict_proba(pipe, X)[i][BadIndex(pipe) + 1]]
                out == BatchRows(probs, th)
            IN  IF \E i \in 1..Len(out) : out[i].risk = KeyError
                THEN Err("KeyError", <<X>>, path)
                ELSE Ok(out, [i \in 1..Len(out) |-> "model"], <<X>>, path)

batch_main(fs, rows, model_path, empty_raises) ==
    LET path == BatchPath(model_path)
    IN  IF ~exists(fs, path) THEN Err("FileNotFoundError", <<>>, NoPath)
        ELSE ScoreFrame(fs[path], rows, path, empty_raises)

(***************************************************************************)
(* src/api.py: the request handlers                                        *)
(***************************************************************************)
Min(a, b) == IF a <= b THEN a ELSE b
Max(a, b) == IF a >= b THEN a ELSE b

\* A mutant of DemoProb: the heuristic is not clamped.
DemoProb_unclamped(sample) == sample.credit_amount.num

\* min(max(sample.credit_amount / 20000.0, 0.1), 0.9), in units of 1/20000.
DemoProb(sample) == Min(Max(sample.credit_amount.num, Pct(10)), Pct(90))

\* A mutant of Fallback: the exception is raised again.
Fallback_reraise(sample, via, invoked) == Err("ValueError", invoked, load_path)

\* The except branch of predict, and the one of predict_batch: a demo
\* prediction; categorize may raise out of it.
Fallback(sample, via, invoked) ==
    LET demo_prob == DemoProb(sample)
        tier == categorize(demo_prob, _THRESHOLDS)
    IN  IF tier = KeyError THEN Err("KeyError", invoked, load_path)
        ELSE Ok(<<Result(demo_prob, tier)>>, <<via>>, invoked, load_path)

\* POST /predict.
predict(sample) ==
    IF _PIPE = None THEN Err("HTTP503", <<>>, load_path)
    ELSE
      LET X == <<EncodeCategories(Reindex(sample, _FEATURE_COLUMNS))>>
      IN  IF ClassifierRaises(_PIPE, X) \/ _PROBA_IDX + 1 > Len(_PIPE.order)
          THEN Fallback(sample, "fallback", <<X>>)
          ELSE
            LET proba_bad == predict_proba(_PIPE, X)[1][_PROBA_IDX + 1]
                tier == categorize(proba_bad, _THRESHOLDS)
            IN  IF tier = KeyError THEN Fallback(sample, "fallback", <<X>>)
                ELSE Ok(<<Result(proba_bad, tier)>>, <<"model">>, <<X>>, load_path)

\* A mutant of AppendResult: the result is put in front.
AppendResult_front(results, r) == <<r>> \o results

\* results.append(result)
AppendResult(results, r) == Append(results, r)

\* One pass of the loop of predict_batch over acc, the outcome so far.  Any
\* exception of predict, the HTTPException included, is caught.
BatchStep(acc, sample) ==
    LET r == predict(sample)
        f == Fallback(sample, "batch_fallback", <<>>)
        o == IF r.kind = "ok" THEN r ELSE f
        invoked == acc.invoked \o r.invoked
    IN  IF o.kind = "error" THEN Err(o.error, invoked, load_path)
        ELSE Ok(AppendResult(acc.results, o.results[1]), Append(acc.via, o.via[1]), invoked, load_path)

RECURSIVE BatchLoop(_, _, _)
BatchLoop(acc, samples, i) ==
    IF i > Len(samples) \/ acc.kind = "error" THEN acc
    ELSE BatchLoop(BatchStep(acc, samples[i]), samples, i + 1)

\* POST /predict_batch.
predict_batch(samples) ==
    IF Len(samples) = 0 THEN Ok(<<>>, <<>>, <<>>, load_path)
    ELSE BatchLoop(Ok(<<>>, <<>>, <<>>, load_path), samples, 1)

\* GET /health.
health == [status |-> "ok", model_loaded |-> _BUNDLE # None]

(***************************************************************************)
(* State machine                                                           *)
(***************************************************************************)
NoHealth == [status |-> "", model_loaded |-> FALSE]

\* The record of a call: the operation, its arguments, its outcome.
MkCall(op, model_path, input, out, body) ==
    [op |-> op, model_path |-> model_path, input |-> input,
     kind |-> out.kind, error |-> out.error, results |-> out.results, via |-> out.via,
     invoked |-> out.invoked, loaded |-> out.loaded, body |-> body, written |-> <<>>]

Idle == MkCall("idle", NoPath, <<>>, Ok(<<>>, <<>>, <<>>, NoPath), NoHealth)

\* A mutant of InitGlobals: the thresholds start as the default pair.
InitGlobals_default_thresholds ==
    /\ _BUNDLE = None
    /\ _PIPE = None
    /\ _FEATURE_COLUMNS = <<>>
    /\ _THRESHOLDS = DefaultThresholds
    /\ _PROBA_IDX = 0

\* The module globals as api.py's lines 56-60 set them.
InitGlobals ==
    /\ _BUNDLE = None
    /\ _PIPE = None
    /\ _FEATURE_COLUMNS = <<>>
    /\ _THRESHOLDS = <<>>
    /\ _PROBA_IDX = 0

InitLoad ==
    /\ load_pc = "not_started"
    /\ load_path = NoPath
    /\ load_error = ""
    /\ trained = "no"

\* The models directory the processes start with.
InitialFiles ==
    {[best |-> b, regular |-> r, custom |-> c] :
        b \in {NoFile, TrainedBundle, WideBundle, NoPipelineBundle},
        r \in {NoFile} \cup Bundles,
        c \in {NoFile, WideBundle}}

Init ==
    /\ thresholds = DefaultThresholds
    /\ prob_default = 0
    /\ risk = NotApplied
    /\ risk_cli = NotApplied
    /\ files \in InitialFiles
    /\ InitGlobals
    /\ InitLoad
    /\ call = Idle

\* ---- on_startup: _load_bundle, statement by statement ----
LoadFails(error) ==
    /\ load_pc' = "failed"
    /\ load_error' = error

\* _train_model_if_needed (line 160).  With neither file there, src.train is
\* run; when that fails the demo bundle is created instead, and an
\* exception of that creation leaves the handler and ends the load.  The
\* startup hook blocks: it starts when no call is being answered.
_train_model_if_needed ==
    /\ load_pc = "not_started"
    /\ call = Idle
    /\ IF ~exists(files, "best") /\ ~exists(files, "regular")
       THEN \E outcome \in {"trained", "fallback", "raised"} :
              /\ trained' = IF outcome = "raised" THEN "no" ELSE outcome
              /\ files' = CASE outcome = "trained" -> [files EXCEPT !["regular"] = TrainedBundle]
                            [] outcome = "fallback" -> [files EXCEPT !["regular"] = FallbackBundle]
                            [] OTHER -> files
              /\ IF outcome = "raised"
                 THEN LoadFails("Exception")
                 ELSE load_pc' = "resolve" /\ UNCHANGED load_error
       ELSE /\ load_pc' = "resolve"
            /\ UNCHANGED <<files, trained, load_error>>
    /\ UNCHANGED <<load_path, globals, call, catVars>>

\* Lines 162-167: the best bundle if it exists, else the default one.
load_resolve ==
    /\ load_pc = "resolve"
    /\ load_path' = IF exists(files, "best") THEN "best" ELSE "regular"
    /\ IF ~exists(files, load_path')
       THEN LoadFails("FileNotFoundError")
       ELSE load_pc' = "joblib" /\ UNCHANGED load_error
    /\ UNCHANGED <<files, trained, globals, call, catVars>>

\* Line 169: _BUNDLE = joblib.load(path)
load_joblib ==
    /\ load_pc = "joblib"
    /\ _BUNDLE' = files[load_path]
    /\ load_pc' = "pipeline"
    /\ UNCHANGED <<_PIPE, _FEATURE_COLUMNS, _THRESHOLDS, _PROBA_IDX>>
    /\ UNCHANGED <<files, trained, load_path, load_error, call, catVars>>

\* Line 170: _PIPE = _BUNDLE["pipeline"]
load_pipeline ==
    /\ load_pc = "pipeline"
    /\ IF "pipeline" \in DOMAIN _BUNDLE
       THEN _PIPE' = _BUNDLE.pipeline /\ load_pc' = "feature_columns" /\ UNCHANGED load_error
       ELSE LoadFails("KeyError") /\ UNCHANGED _PIPE
    /\ UNCHANGED <<_BUNDLE, _FEATURE_COLUMNS, _THRESHOLDS, _PROBA_IDX>>
    /\ UNCHANGED <<files, trained, load_path, call, catVars>>

\* Line 171: _FEATURE_COLUMNS = _BUNDLE["feature_columns"]
load_feature_columns ==
    /\ load_pc = "feature_columns"
    /\ IF "feature_columns" \in DOMAIN _BUNDLE
       THEN /\ _FEATURE_COLUMNS' = _BUNDLE.feature_columns
            /\ load_pc' = "thresholds"
            /\ UNCHANGED load_error
       ELSE LoadFails("KeyError") /\ UNCHANGED _FEATURE_COLUMNS
    /\ UNCHANGED <<_BUNDLE, _PIPE, _THRESHOLDS, _PROBA_IDX>>
    /\ UNCHANGED <<files, trained, load_path, call, catVars>>

\* Line 172: _THRESHOLDS = _BUNDLE.get("thresholds", {...})
load_thresholds ==
    /\ load_pc = "thresholds"
    /\ _THRESHOLDS' = GetThresholds(_BUNDLE)
    /\ load_pc' = "proba_idx"
    /\ UNCHANGED <<_BUNDLE, _PIPE, _FEATURE_COLUMNS, _PROBA_IDX>>
    /\ UNCHANGED <<files, trained, load_path, load_error, call, catVars>>

\* Lines 175-179: the index of "bad", and 1 when the pipeline has no
\* classes_ or no "bad" among them.
ProbaIdx(pipe) ==
    IF pipe.exposes_classes
    THEN IF BadIndex(pipe) >= 0 THEN BadIndex(pipe) ELSE 1
    ELSE 1

load_proba_idx ==
    /\ load_pc = "proba_idx"
    /\ _PROBA_IDX' = ProbaIdx(_PIPE)
    /\ load_pc' = "done"
    /\ UNCHANGED <<_BUNDLE, _PIPE, _FEATURE_COLUMNS, _THRESHOLDS>>
    /\ UNCHANGED <<files, trained, load_path, load_error, call, catVars>>

\* ---- calls ----
\* A request is served before the startup hook has run (the handlers called
\* directly), after it completed and after it raised; the command lines
\* read nothing but the models directory, which no later step of the load
\* changes, and are run at the same points.
Quiescent == load_pc \in {"not_started", "done", "failed"} /\ call = Idle

\* A handler that fills in default thresholds when it finds none.
Served_defaulting(c) ==
    /\ Quiescent
    /\ call' = c
    /\ _THRESHOLDS' = IF _THRESHOLDS = <<>> THEN DefaultThresholds ELSE _THRESHOLDS
    /\ UNCHANGED <<files, _BUNDLE, _PIPE, _FEATURE_COLUMNS, _PROBA_IDX, loadVars, catVars>>

Served(c) ==
    /\ Quiescent
    /\ call' = c
    /\ UNCHANGED <<files, globals, loadVars, catVars>>

GetHealth == Served(MkCall("health", NoPath, <<>>, Ok(<<>>, <<>>, <<>>, load_path), health))

PostPredict ==
    \E sample \in CreditRequests :
        Served(MkCall("predict", NoPath, <<sample>>, predict(sample), NoHealth))

PostPredictBatch ==
    \E samples \in RequestLists :
        Served(MkCall("predict_batch", NoPath, samples, predict_batch(samples), NoHealth))

\* python -m src.predict sample.json, and predict_from_dict with a path.
RunPredictFromDict ==
    \E sample \in Records, model_path \in {NoPath, "custom"} :
        Served(MkCall("predict_from_dict", model_path, <<sample>>,
                      predict_from_dict(files, sample, model_path), NoHealth))

\* python -m src.batch_predict input.csv output.csv [model_path]
RunBatchPredict ==
    \E rows \in CsvInputs, model_path \in {NoPath, "custom"}, empty_raises \in BOOLEAN :
        LET out == batch_main(files, rows, model_path, empty_raises)
        IN  Served([MkCall("batch_predict", model_path, rows, out, NoHealth) EXCEPT
                       !.written = IF out.kind = "ok" THEN OutputCsv(rows, out.results) ELSE <<>>])

\* The response is delivered, or the process has exited.
Return ==
    /\ call # Idle
    /\ call' = Idle
    /\ UNCHANGED <<files, globals, loadVars, catVars>>

Next ==
    \/ _train_model_if_needed
    \/ load_resolve
    \/ load_joblib
    \/ load_pipeline
    \/ load_feature_columns
    \/ load_thresholds
    \/ load_proba_idx
    \/ GetHealth
    \/ PostPredict
    \/ PostPredictBatch
    \/ RunPredictFromDict
    \/ RunBatchPredict
    \/ Return

Spec == Init /\ [][Next]_vars

\* ---- the categorizer on its own ----
InitCategorize ==
    /\ thresholds \in ThresholdDicts
    /\ prob_default = 0
    /\ risk = NotApplied
    /\ risk_cli = NotApplied
    /\ files = [p \in Paths |-> NoFile]
    /\ InitGlobals
    /\ InitLoad
    /\ call = Idle

Categorize ==
    /\ \E p \in ProbInputs(thresholds) :
          /\ prob_default' = p
          /\ risk' = categorize(p, thresholds)
          /\ risk_cli' = batch_categorize(p, thresholds)
    /\ UNCHANGED <<thresholds, svcVars>>

NextCategorize == Categorize

SpecCategorize == InitCategorize /\ [][NextCategorize]_vars

(***************************************************************************)
(* Properties of the risk categorizer (checked under SpecCategorize)       *)
(***************************************************************************)
Applied == risk # NotApplied
Ordered == thresholds["low"] <= thresholds["medium"]

\* C1 as stated: for any thresholds with keys low and medium, categorize
\* gives low when p <= low, medium when low < p <= medium and high when
\* p > medium, and the nested copy of the batch runner agrees.
C1_AsClaimed ==
    Applied =>
        /\ (prob_default <= thresholds["low"] => risk = "low")
        /\ (thresholds["low"] < prob_default /\ prob_default <= thresholds["medium"] => risk = "medium")
        /\ (prob_default > thresholds["medium"] => risk = "high")
        /\ risk_cli = risk

\* C1, amended: for any thresholds with keys low and medium, categorize
\* gives low when p <= low, medium when low < p <= medium, and high when p
\* is above both low and medium (which is p > medium when low <= medium);
\* with thresholds {0.20, 0.50} it maps 0.19 and 0.20 to low, 0.35 to medium
\* and 0.51 to high; the nested copy of the batch runner gives the same tier.
C1_Categorize ==
    Applied =>
        /\ (prob_default <= thresholds["low"] => risk = "low")
        /\ (thresholds["low"] < prob_default /\ prob_default <= thresholds["medium"] => risk = "medium")
        /\ (prob_default > thresholds["medium"] /\ prob_default > thresholds["low"] => risk = "high")
        /\ (thresholds = DefaultThresholds =>
              /\ (prob_default \in {Pct(19), Pct(20)} => risk = "low")
              /\ (prob_default = Pct(35) => risk = "medium")
              /\ (prob_default = Pct(51) => risk = "high"))
        /\ risk_cli = risk

C1_Witness ==
    /\ thresholds = DefaultThresholds
    /\ prob_default = Pct(51)
    /\ risk = "high"
    /\ risk_cli = "high"

\* C2: for thresholds with 0 <= low <= medium <= 1 and p in [0, 1],
\* categorize returns one of low, medium, high, and no larger probability
\* gets a lower tier, no smaller probability a higher one.
C2_Monotone ==
    (Applied /\ Ordered /\ prob_default \in 0..PScale) =>
        /\ risk \in Tiers
        /\ \A q \in ProbInputs(thresholds) \cap (0..PScale) :
              /\ categorize(q, thresholds) \in Tiers
              /\ (prob_default <= q => Rank(risk) <= Rank(categorize(q, thresholds)))
              /\ (q <= prob_default => Rank(categorize(q, thresholds)) <= Rank(risk))

C2_Witness ==
    /\ Applied
    /\ thresholds["low"] < thresholds["medium"]
    /\ prob_default \in 0..PScale
    /\ risk = "medium"
    /\ \E q \in ProbInputs(thresholds) \cap (0..PScale) :
          prob_default < q /\ categorize(q, thresholds) = "high"

\* C3 as stated: for every thresholds with low <= medium, low == medium
\* included, categorize(low) is low, categorize(low + eps) is medium,
\* categorize(medium) is medium and categorize(medium + eps) is high.
C3_AsClaimed ==
    (Applied /\ Ordered) =>
        /\ (prob_default = thresholds["low"] => risk = "low")
        /\ (prob_default = thresholds["low"] + 1 => risk = "medium")
        /\ (prob_default = thresholds["medium"] => risk = "medium")
        /\ (prob_default = thresholds["medium"] + 1 => risk = "high")

\* C3, amended: for thresholds with low < medium, categorize(low) is low,
\* categorize(low + eps) is medium, categorize(medium) is medium and
\* categorize(medium + eps) is high; for thresholds with low == medium the
\* medium band is empty: categorize(low) = categorize(medium) is low and
\* categorize(low + eps) = categorize(medium + eps) is high.
C3_Boundaries ==
    (Applied /\ Ordered) =>
        /\ (prob_default = thresholds["low"] => risk = "low")
        /\ (prob_default = thresholds["medium"] + 1 => risk = "high")
        /\ thresholds["low"] < thresholds["medium"] =>
              /\ (prob_default = thresholds["low"] + 1 => risk = "medium")
              /\ (prob_default = thresholds["medium"] => risk = "medium")
        /\ thresholds["low"] = thresholds["medium"] =>
              /\ (prob_default = thresholds["medium"] => risk = "low")
              /\ (prob_default = thresholds["low"] + 1 => risk = "high")

C3_Witness ==
    /\ Applied
    /\ thresholds["low"] < thresholds["medium"]
    /\ prob_default = thresholds["low"] + 1
    /\ risk = "medium"

(***************************************************************************)
(* Properties of the serving paths (checked under Spec)                    *)
(***************************************************************************)
BatchOps == {"predict_batch", "batch_predict"}
CliOps == {"predict_from_dict", "batch_predict"}
Returned == call.kind = "ok"
N == Len(call.input)

\* What scoring input record i on its own returns: POST /predict for a
\* record of an HTTP batch, predict_from_dict on the same bundle file for a
\* row of a CSV.
Alone(i) ==
    IF call.op \in {"predict", "predict_batch"}
    THEN predict(call.input[i])
    ELSE predict_from_dict(files, call.input[i], call.loaded)

\* C4: a batch call that returns, returns exactly one result per input
\* record, result i being the result for record i; POST /predict_batch of
\* an empty list returns the empty list.
C4_BatchLength ==
    /\ (call.op = "predict_batch" /\ N = 0) => (Returned /\ call.results = <<>>)
    /\ (call.op \in BatchOps /\ Returned) =>
          /\ Len(call.results) = N
          /\ \A i \in 1..N : Alone(i).kind = "ok" /\ call.results[i] = Alone(i).results[1]

C4_Witness ==
    /\ call.op = "predict_batch"
    /\ Returned
    /\ N = 2
    /\ Len(call.results) = 2
    /\ call.results[1] # call.results[2]

\* The same batch operation on another list of records.
Rerun(records) ==
    IF call.op = "predict_batch"
    THEN predict_batch(records)
    ELSE batch_main(files, records, call.model_path, FALSE)

\* The records that may stand beside record i in a batch.
Companions(i) ==
    IF call.op = "predict_batch" THEN BatchRequests ELSE RowsOf(DOMAIN call.input[i])

\* C5: with the bundle fixed, a record scored as element of a batch gets
\* the result it gets alone, and the same result beside any other record
\* and at either position.
C5_NoLeakage ==
    (call.op \in BatchOps /\ Returned) =>
        \A i \in 1..N :
            /\ Alone(i).kind = "ok"
            /\ Alone(i).results = <<call.results[i]>>
            /\ \A x \in Companions(i) :
                  LET first == Rerun(<<call.input[i], x>>)
                      second == Rerun(<<x, call.input[i]>>)
                  IN  /\ first.kind = "ok" => first.results[1] = call.results[i]
                      /\ second.kind = "ok" => second.results[2] = call.results[i]

C5_Witness ==
    /\ call.op = "batch_predict"
    /\ Returned
    /\ N = 2
    /\ call.results[1] # call.results[2]
    /\ Alone(1).results = <<call.results[1]>>
    /\ Alone(2).results = <<call.results[2]>>

\* C6: a batch call on N >= 1 records invokes predict_proba exactly once, on
\* all N aligned records.
C6_OneInvocation ==
    (call.op \in BatchOps /\ Returned /\ N >= 1) =>
        /\ Len(call.invoked) = 1
        /\ Len(call.invoked[1]) = N

\* The bundle the call read.
LoadedBundle == files[call.loaded]
WellFormed(bundle) ==
    /\ {"pipeline", "feature_columns"} \subseteq DOMAIN bundle
    /\ bundle.pipeline.exposes_classes
    /\ BadIndex(bundle.pipeline) >= 0

\* C7: on the command-line paths a record that lacks feature columns is not
\* rejected: the classifier is invoked once, on vectors in feature_columns
\* order in which an absent column holds NaN and a present column the
\* record's own value, the record's other columns being dropped; and a
\* pipeline that imputes and encodes scores the record.
C7_Alignment ==
    (call.op \in CliOps /\ call.loaded # NoPath) =>
        /\ \A m \in 1..Len(call.invoked) :
              /\ Len(call.invoked[m]) = N
              /\ \A i \in 1..N :
                    LET row == call.invoked[m][i]
                        cols == LoadedBundle.feature_columns
                    IN  /\ Len(row) = Len(cols)
                        /\ \A k \in 1..Len(cols) :
                              row[k] = IF cols[k] \in DOMAIN call.input[i]
                                       THEN call.input[i][cols[k]]
                                       ELSE NaN
        /\ (WellFormed(LoadedBundle) /\ N >= 1) => Len(call.invoked) = 1
        /\ (/\ WellFormed(LoadedBundle)
            /\ N >= 1
            /\ LoadedBundle.pipeline.imputes
            /\ LoadedBundle.pipeline.encodes
            /\ {"low", "medium"} \subseteq DOMAIN GetThresholds(LoadedBundle)) => Returned

C7_Witness ==
    /\ call.op = "predict_from_dict"
    /\ Returned
    /\ Len(call.invoked) = 1
    /\ \E c \in DOMAIN call.input[1] :
          \A k \in 1..Len(LoadedBundle.feature_columns) : LoadedBundle.feature_columns[k] # c
    /\ \E k \in 1..Len(LoadedBundle.feature_columns) :
          /\ LoadedBundle.feature_columns[k] \notin DOMAIN call.input[1]
          /\ call.invoked[1][1][k] = NaN

\* C8: every scoring result a serving path returns has the two fields
\* prob_default and risk, prob_default within [0, 1] and risk one of low,
\* medium, high; POST /predict and predict_from_dict return one result.
C8_ResultShape ==
    (call.op \in {"predict", "predict_batch", "predict_from_dict", "batch_predict"} /\ Returned) =>
        /\ call.op \in {"predict", "predict_from_dict"} => Len(call.results) = 1
        /\ \A i \in 1..Len(call.results) :
              /\ DOMAIN call.results[i] = {"prob_default", "risk"}
              /\ call.results[i].prob_default \in 0..PScale
              /\ call.results[i].risk \in Tiers

C8_Witness ==
    /\ call.op = "predict"
    /\ Returned
    /\ call.via = <<"fallback">>
    /\ call.results[1].prob_default = Pct(90)

\* The aligned record that result i of the call was computed from.
RowOf(i) ==
    CASE call.op = "predict_batch" -> call.invoked[i][1]
      [] call.op = "batch_predict" -> call.invoked[1][i]
      [] OTHER -> call.invoked[1][1]

\* C9: prob_default is the probability at the position of the label "bad"
\* in the classifier's own class order; a bundle whose classifier has no
\* label "bad", or exposes no classes, is not loaded and gives no score.
C9_BadLabel ==
    /\ load_pc = "done" =>
          /\ _PIPE.exposes_classes
          /\ BadIndex(_PIPE) >= 0
          /\ _PROBA_IDX = BadIndex(_PIPE)
    /\ \A i \in 1..Len(call.results) :
          call.via[i] = "model" =>
              /\ LoadedBundle.pipeline.exposes_classes
              /\ BadIndex(LoadedBundle.pipeline) >= 0
              /\ call.results[i].prob_default =
                    ProbaRow(LoadedBundle.pipeline, RowOf(i))[BadIndex(LoadedBundle.pipeline) + 1]

\* The startup load began with neither bundle file in the models directory
\* (only _train_model_if_needed writes there).
NoFileAtStart ==
    /\ load_pc # "not_started"
    /\ \/ trained # "no"
       \/ ~exists(files, "best") /\ ~exists(files, "regular")

\* C10: a load that finds no file at any checked path fails with a
\* not-found error and yields no bundle; no path produces or serves a
\* bundle that was not there when the load started.
C10_NotFound ==
    /\ trained = "no"
    /\ NoFileAtStart =>
          /\ load_pc = "failed"
          /\ load_error = "FileNotFoundError"
          /\ _BUNDLE = None
    /\ (/\ call.op \in CliOps
        /\ ~exists(files, IF call.op = "batch_predict"
                          THEN BatchPath(call.model_path)
                          ELSE ResolvePath(files, call.model_path))) =>
          /\ call.kind = "error"
          /\ call.error = "FileNotFoundError"
          /\ call.results = <<>>
          /\ call.loaded = NoPath

\* The fields _load_bundle and predict_from_dict look up without a default.
RequiredFields == {"pipeline", "feature_columns"}

\* C11: loading a bundle that lacks feature_columns or pipeline fails with
\* an error, and a failed load leaves every module global at the value it
\* had before the load (the load is all-or-nothing).
C11_AllOrNothing ==
    /\ load_pc \in {"thresholds", "proba_idx", "done"} =>
          RequiredFields \subseteq DOMAIN files[load_path]
    /\ (/\ call.op \in CliOps
        /\ call.loaded # NoPath
        /\ ~(RequiredFields \subseteq DOMAIN LoadedBundle)) =>
          /\ call.kind = "error"
          /\ call.error = "KeyError"
          /\ call.results = <<>>
    /\ load_pc = "failed" => InitGlobals

\* C12: after a startup load that failed at any step GET /health answers
\* neither status "ok" nor model_loaded = true; model_loaded is true only
\* after _load_bundle ran to completion.
C12_HealthAfterFailure ==
    call.op = "health" =>
        /\ load_pc = "failed" =>
              /\ call.body.status # "ok"
              /\ ~call.body.model_loaded
        /\ call.body.model_loaded => load_pc = "done"

\* The path the priority order of the two candidate files gives.
BestFirst(fs) == IF exists(fs, "best") THEN "best" ELSE "regular"

\* C13: every path that resolves the bundle without an explicit path (the
\* startup load, predict_from_dict without model_path, the batch command
\* line without a third argument) loads the best file when it exists and
\* the default file otherwise.
C13_BestFirst ==
    /\ load_path # NoPath => load_path = BestFirst(files)
    /\ (/\ call.op \in CliOps
        /\ call.model_path = NoPath
        /\ call.loaded # NoPath) =>
          call.loaded = BestFirst(files)

\* Credit amounts around the ends of the clamp and around the default
\* thresholds, as requests that carry them.
FallbackAmounts == {0 - 500, 0, 1999, 2000, 4000, 4001, 10000, 10001, 18000, 18001, 25000}
FallbackSamples == {[credit_amount |-> Num(a)] : a \in FallbackAmounts}

\* credit_amount / 20000 held to [0.1, 0.9], written out.
Clamped(a) == IF a < Pct(10) THEN Pct(10) ELSE IF a > Pct(90) THEN Pct(90) ELSE a

\* C14: POST /predict with a bundle loaded, whose alignment or classifier
\* raised, answers prob_default = min(max(credit_amount / 20000, 0.1), 0.9)
\* and risk = categorize of that value with the loaded thresholds, not an
\* error; the value lies in [0.1, 0.9] for every credit_amount, and with
\* thresholds {0.20, 0.50} the tier is low up to 4000, medium up to 10000
\* and high above.
C14_FallbackResponse ==
    /\ (/\ call.op = "predict"
        /\ load_pc = "done"
        /\ call.via # <<"model">>) =>
          LET p == Clamped(call.input[1].credit_amount.num)
          IN  /\ call.kind = "ok"
              /\ call.via = <<"fallback">>
              /\ call.results = <<Result(p, categorize(p, _THRESHOLDS))>>
    /\ \A s \in FallbackSamples :
          LET a == s.credit_amount.num
          IN  /\ DemoProb(s) = Clamped(a)
              /\ DemoProb(s) >= Pct(10)
              /\ DemoProb(s) <= Pct(90)
              /\ categorize(DemoProb(s), DefaultThresholds) =
                    IF a <= 4000 THEN "low" ELSE IF a <= 10000 THEN "medium" ELSE "high"

HttpOps == {"health", "predict", "predict_batch"}

\* C15: once the startup load has ended the bundle state is read-only: no
\* step, and in particular no GET /health, POST /predict or POST
\* /predict_batch, whether it succeeds, fails or falls back, changes
\* _BUNDLE, _PIPE, _FEATURE_COLUMNS, _THRESHOLDS or _PROBA_IDX.
C15_ReadOnly ==
    [][(\/ load_pc \in {"done", "failed"}
        \/ call'.op \in HttpOps
        \/ call.op \in HttpOps) => UNCHANGED globals]_vars

\* A batch of two or more was answered by the fallback after a completed
\* load.
C15_Witness ==
    /\ load_pc = "done"
    /\ _BUNDLE # None
    /\ call.op = "predict_batch"
    /\ call.kind = "ok"
    /\ Len(call.via) >= 2
    /\ \A i \in 1..Len(call.via) : call.via[i] = "fallback"

ScoreColumns == {"prob_default", "risk"}

\* C16 as claimed: the output CSV of the batch command line is the input
\* CSV plus two columns: the same rows in the same order, every input
\* column kept with its input values, and two more columns, of which risk
\* is categorize of prob_default in the same row.
C16_AsClaimed ==
    (call.op = "batch_predict" /\ Returned) =>
        /\ Len(call.written) = Len(call.input)
        /\ \A i \in 1..Len(call.input) :
              /\ DOMAIN call.written[i] = DOMAIN call.input[i] \cup ScoreColumns
              /\ Cardinality(DOMAIN call.written[i]) = Cardinality(DOMAIN call.input[i]) + 2
              /\ \A c \in DOMAIN call.input[i] : call.written[i][c] = call.input[i][c]
              /\ call.written[i].risk =
                    Str(categorize(call.written[i].prob_default.num, GetThresholds(LoadedBundle)))

\* C16: the output CSV has the rows of the input CSV in the same order;
\* every input column not named prob_default or risk is kept with its
\* input values, and the columns prob_default and risk hold the computed
\* probability of the row and categorize of it, whether the input had
\* columns of these names or not.
C16_OutputCsv ==
    (call.op = "batch_predict" /\ Returned) =>
        /\ Len(call.written) = Len(call.input)
        /\ \A i \in 1..Len(call.input) :
              /\ DOMAIN call.written[i] = DOMAIN call.input[i] \cup ScoreColumns
              /\ \A c \in DOMAIN call.input[i] \ ScoreColumns : call.written[i][c] = call.input[i][c]
              /\ call.written[i].prob_default = Num(call.results[i].prob_default)
              /\ call.written[i].risk =
                    Str(categorize(call.written[i].prob_default.num, GetThresholds(LoadedBundle)))

\* Two rows with a column that is no feature column were written, with
\* different tiers.
C16_Witness ==
    /\ call.op = "batch_predict"
    /\ Returned
    /\ Len(call.written) >= 2
    /\ "note" \in DOMAIN call.written[1]
    /\ call.written[1].note = call.input[1].note
    /\ call.written[1].risk # call.written[2].risk

\* C17: for the same bundle and record POST /predict hands the classifier
\* the aligned vector the command-line paths hand it (for every feature
\* column the record's own value, the missing marker where the record has
\* none), and returns what they return whenever scoring does not fail.
C17_SameVector ==
    (call.op = "predict" /\ call.invoked # <<>>) =>
        LET sample == call.input[1]
            row == call.invoked[1][1]
            cli == ScoreSample(_BUNDLE, sample, load_path)
        IN  /\ Len(row) = Len(_FEATURE_COLUMNS)
            /\ \A k \in 1..Len(row) :
                  row[k] = IF _FEATURE_COLUMNS[k] \in DOMAIN sample
                           THEN sample[_FEATURE_COLUMNS[k]]
                           ELSE NaN
            /\ (call.via = <<"model">> /\ cli.kind = "ok") => call.results = cli.results

ThresholdKeys == {"low", "medium"}

\* C18: in every reachable state of the HTTP service (before the load,
\* after each step of _load_bundle, after a load that raised midway, after
\* a completed load) _BUNDLE is not None exactly when _PIPE is not None,
\* and whenever _PIPE is not None the thresholds in use hold both keys low
\* and medium.
C18_Consistent ==
    /\ (_BUNDLE # None) <=> (_PIPE # None)
    /\ _PIPE # None => ThresholdKeys \subseteq DOMAIN _THRESHOLDS

\* C19: while _PIPE is None POST /predict answers 503 and no result, and
\* POST /predict_batch on a non-empty list returns no result either;
\* whenever predict raises for a sample the except branch of predict_batch
\* raises for it too, so that branch never contributes a result.
C19_NoResultWithoutModel ==
    /\ (call.op = "predict" /\ _PIPE = None) =>
          /\ call.kind = "error"
          /\ call.error = "HTTP503"
          /\ call.results = <<>>
    /\ (call.op = "predict_batch" /\ _PIPE = None /\ N >= 1) =>
          /\ call.kind = "error"
          /\ call.results = <<>>
    /\ \A sample \in CreditRequests :
          predict(sample).kind = "error" =>
              Fallback(sample, "batch_fallback", <<>>).kind = "error"
    /\ call.op = "predict_batch" =>
          \A i \in 1..Len(call.via) : call.via[i] # "batch_fallback"

\* A non-empty batch was posted while no model was loaded.
C19_Witness ==
    /\ _PIPE = None
    /\ call.op = "predict_batch"
    /\ N >= 1
    /\ call.kind = "error"
    /\ call.error = "KeyError"

\* The startup load ran to completion and installed thresholds with both
\* keys.
FullyLoaded == load_pc = "done" /\ ThresholdKeys \subseteq DOMAIN _THRESHOLDS

\* C20: once a bundle is fully loaded with thresholds that hold low and
\* medium, POST /predict ends with exactly one response and never with an
\* error for every request, whether the classifier returns or raises, and
\* POST /predict_batch on N requests ends with N responses.
C20_Total ==
    FullyLoaded =>
        /\ \A sample \in CreditRequests :
              LET r == predict(sample)
              IN  /\ r.kind = "ok"
                  /\ Len(r.results) = 1
                  /\ r.results[1].risk \in Tiers
        /\ call.op = "predict" =>
              /\ Returned
              /\ Len(call.results) = 1
        /\ call.op = "predict_batch" =>
              /\ Returned
              /\ Len(call.results) = N

\* A request was answered although the classifier, called on it, raised.
C20_Witness ==
    /\ FullyLoaded
    /\ call.op = "predict"
    /\ Returned
    /\ call.invoked # <<>>
    /\ call.via = <<"fallback">>

====
